---- MODULE Spec2Model ----
(***************************************************************************)
(* Model of the generation pipeline of the ExamGen web client:             *)
(*   - apiFetch, the fetch wrapper every remote call goes through          *)
(*     (apps/web/src/lib/api.js),                                          *)
(*   - the catch-all proxy Route Handler that forwards /api/* to the       *)
(*     backend (apps/web/src/app/api/[...path]/route.js),                  *)
(*   - the developer workflow page (apps/web/src/app/dev/page.jsx),        *)
(*   - the user wizard page (apps/web/src/app/user/page.jsx),              *)
(*   - the parse stage of the developer page, character by character.      *)
(* Each component has its own specification over the shared variables; the *)
(* variables of the other components stay at their initial values.         *)
(***************************************************************************)
EXTENDS Integers, Sequences, FiniteSets, TLC

VARIABLES
    \* ---- one apiFetch call (api.js:19-93) ----
    pc,          \* "idle" | "wait" (backoff timer running) | "fetch" (request in flight) | "done"
    path,        \* the endpoint the call addresses
    retries,     \* options.retries of the call
    attempt,     \* the loop counter of api.js:25
    lastError,   \* api.js:23
    sent,        \* number of fetch() invocations of the call
    waits,       \* the delays (ms) slept so far, in order (api.js:28)
    log,         \* what each finished attempt ended in, in order
    result,      \* what the call returned or threw
    committed,   \* records the store inserted on behalf of this call
    \* ---- the pages ----
    dev,         \* state of DevModePage (dev/page.jsx:58-92)
    devCalls,    \* remote calls of DevModePage that are awaiting their result
    user,        \* state of UserModePage (user/page.jsx:79-105)
    userCalls,   \* remote calls of UserModePage that are awaiting their result
    \* ---- the parse stage on its own (dev/page.jsx:35-54, 171-220) ----
    llmText,     \* the text of llmOutput, character by character
    parseRun,    \* what parseLlmOutput did with it
    \* ---- the proxy Route Handler on one request (route.js:22-88) ----
    proxy        \* the request, what was forwarded, and the response returned

apiVars == <<pc, path, retries, attempt, lastError, sent, waits, log, result, committed>>
devVars == <<dev, devCalls>>
userVars == <<user, userCalls>>
parseVars == <<llmText, parseRun>>
proxyVars == <<proxy>>
vars == <<pc, path, retries, attempt, lastError, sent, waits, log, result, committed,
          dev, devCalls, user, userCalls, llmText, parseRun, proxy>>

----------------------------------------------------------------------------
(* Bounds and program constants *)

\* largest options.retries a call is started with
MaxRetries == 2

\* api.js:21, the default of options.retries
DefaultRetries == 2

\* api.js:28, the backoff base in milliseconds
BackoffBase == 3000

----------------------------------------------------------------------------
(* The remote side of one attempt *)

\* the endpoints the calls of the pipeline address: api.js:112, api.js:151,
\* user/page.jsx:198, and "other" for any other path given to apiFetch
Paths == {"template_render", "save_problem", "generate_with_llm", "other"}

\* HTTP statuses an upstream answers with
Statuses == {200, 400, 500, 502, 504}

\* the statuses of a response that has no body (of them 204 No Content);
\* new Response(body, {status}) throws a TypeError for them when body is not
\* null, and an ArrayBuffer, also an empty one, is not null
NullBodyStatuses == {204}

\* a body as res.text() / JSON.parse see it (api.js:63-64):
\*   "object" parses to a non-null value, "empty" is the empty text,
\*   "malformed" makes JSON.parse throw
Bodies == {"object", "empty", "malformed"}

\* err.message of a fetch() that failed, a text of the engine that ran it
FetchMessages == {"Failed to fetch", "fetch failed"}

\* a response; detail is the text of data.detail when the body is an object,
\* here a text of the backend's own
Resp(s, j, b) ==
    [kind |-> "resp", status |-> s, json |-> j, body |-> b, detail |-> <<"backend text">>]

\* what the backend can do with a forwarded request, as the proxy sees it:
\* an answer, no answer within the proxy's deadline, or a failed fetch / body read
Upstream ==
    {Resp(s, TRUE, b) : s \in Statuses, b \in Bodies}
    \cup {Resp(s, FALSE, "object") : s \in Statuses}
    \cup {Resp(s, FALSE, "empty") : s \in NullBodyStatuses}
    \cup {[kind |-> "timeout", status |-> 0, json |-> FALSE, body |-> "empty",
           detail |-> <<>>]}
    \cup {[kind |-> "failed", status |-> 0, json |-> FALSE, body |-> "empty",
           detail |-> <<m>>] : m \in FetchMessages}

\* route.js:51-87: an upstream answer is passed on with its status; a timeout
\* becomes a 504 and any other failure, thrown anywhere in the try block, a
\* 502, both with a JSON error body
\* route.js:52-71 runs to its return: the fetch and the reading of the body
\* succeeded and the Response could be built
passedOn(up) == up.kind = "resp" /\ up.status \notin NullBodyStatuses

\* err.message of the TypeError of the Response constructor
InvalidStatus == <<"Invalid response status code">>

handler(up) ==
    IF passedOn(up) THEN up
    ELSE IF up.kind = "resp"
         THEN [Resp(502, TRUE, "object") EXCEPT !.detail = <<"cannot connect: ">> \o InvalidStatus]
    ELSE IF up.kind = "timeout"
         THEN [Resp(504, TRUE, "object") EXCEPT !.detail = <<"backend timeout">>]      \* route.js:78-79
    ELSE [Resp(502, TRUE, "object") EXCEPT !.detail = <<"cannot connect: ">> \o up.detail]  \* route.js:80

\* the handler's view of one request with the header entries es: the entries,
\* the headers forwarded, what the upstream fetch ended in and with which
\* header entries, and the response returned with its headers
NoUpstream == [kind |-> "none", status |-> 0, json |-> FALSE, body |-> "empty", detail |-> <<>>]

ProxyRequest(es) ==
    [phase |-> "request", request |-> es, forwarded |-> {}, up |-> NoUpstream,
     upHeaders |-> <<>>, response |-> NoUpstream, headers |-> {}]

\* no request is at the proxy
ProxyIdle == proxy = [ProxyRequest(<<>>) EXCEPT !.phase = "idle"]

\* what fetch() in the browser ends in when it never gets the proxy's answer:
\* the AbortController fired (api.js:32, 42) or the connection failed (api.js:46)
Abort == [kind |-> "abort", status |-> 0, json |-> FALSE, body |-> "empty", detail |-> <<>>]
NetErr(m) == [kind |-> "neterr", status |-> 0, json |-> FALSE, body |-> "empty", detail |-> <<m>>]

----------------------------------------------------------------------------
(* apiFetch (api.js:19-93) *)

NoError == [type |-> "none", msg |-> "none", status |-> 0, att |-> 0, text |-> <<>>]

\* an Error object: which message of apiFetch it carries, the status the message
\* quotes (0 when it quotes none) and the attempt that built it
Err(m, s, a) == [type |-> "error", msg |-> m, status |-> s, att |-> a, text |-> <<>>]

\* an Error object whose message holds a text that came from outside
ErrText(m, s, a, t) == [type |-> "error", msg |-> m, status |-> s, att |-> a, text |-> t]

\* error.message, all a caller can tell one Error of apiFetch from another by:
\* the wording, with the status or the outside text it quotes
message(e) ==
    IF e.msg = "timeout" THEN <<"timed out">>                                  \* api.js:43
    ELSE IF e.msg = "connect" THEN <<"cannot connect: ">> \o e.text             \* api.js:46
    ELSE IF e.msg = "fallback" THEN <<"cannot connect">>                       \* api.js:92
    ELSE IF e.msg = "detail" THEN e.text                                       \* api.js:80-81
    ELSE <<e.msg, e.status>>                                  \* api.js:53, 67, 74, 80, 85

\* a returned value: the parsed data (api.js:88) or the Response itself (api.js:76)
Ret(t, s, a) == [type |-> t, msg |-> "none", status |-> s, att |-> a, text |-> <<>>]

\* res.ok
Ok(s) == s >= 200 /\ s <= 299

LoopGuardOffByOne(a, r) == a <= r + 1
\* api.js:25, the loop condition
LoopGuard(a, r) == a <= r

ShouldRetryAnyFailure(s, a, r) == s >= 400 /\ a < r
\* api.js:52, the statuses that are tried again while attempts remain
ShouldRetry(s, a, r) == (s = 502 \/ s = 504) /\ a < r

BackoffFlat(a) == BackoffBase
\* api.js:28, the delay slept before attempt a (a > 0)
Backoff(a) == BackoffBase * a

SettleSurfacingLastError(o, a) ==
    IF lastError # NoError THEN lastError
    ELSE IF Ok(o.status) /\ (~o.json \/ o.body = "object")
         THEN Ret(IF o.json THEN "data" ELSE "response", o.status, a)
         ELSE Err("detail", o.status, a)
\* api.js:57-88: what the call returns or throws for a response that is not retried
Settle(o, a) ==
    IF o.json
    THEN LET parseThrew == o.body = "malformed"                       \* api.js:64-65
             data == IF o.body = "object" THEN "object" ELSE "null"   \* api.js:64, 69
         IN  IF parseThrew /\ ~Ok(o.status) THEN Err("parse_failed", o.status, a)     \* 66-68
             ELSE IF ~Ok(o.status)                                                    \* 79-82
                  THEN IF data = "object" THEN ErrText("detail", o.status, a, o.detail)
                       ELSE Err("status_text", o.status, a)
             ELSE IF data = "null" THEN Err("empty_response", o.status, a)            \* 84-86
             ELSE Ret("data", o.status, a)                                            \* 88
    ELSE IF ~Ok(o.status) THEN Err("http_status", o.status, a)                        \* 73-75
         ELSE Ret("response", o.status, a)                                            \* 76

\* whether the store inserted a record while serving an attempt that ended in o.
\* Only save_problem inserts. A failed connection reached no backend; a 2xx
\* answer reports the insert; a 4xx answer rejected the record; after a
\* timeout or a 5xx answer the insert may or may not have happened.
Commits(p, o) ==
    IF p # "save_problem" \/ o.kind = "neterr" THEN {0}
    ELSE IF o.kind = "resp" /\ Ok(o.status) THEN {1}
    ELSE IF o.kind = "resp" /\ o.status = 400 THEN {0}
    ELSE {0, 1}

\* a caller invokes apiFetch(p, {retries: r}): the first request goes out at once
Call(p, r) ==
    /\ pc \in {"idle", "done"}
    /\ pc' = IF LoopGuard(0, r) THEN "fetch" ELSE "done"
    /\ path' = p
    /\ retries' = r
    /\ attempt' = 0
    /\ lastError' = NoError
    /\ sent' = IF LoopGuard(0, r) THEN 1 ELSE 0
    /\ waits' = <<>>
    /\ log' = <<>>
    /\ result' = IF LoopGuard(0, r) THEN NoError ELSE Err("fallback", 0, 0)
    /\ committed' = 0
    /\ UNCHANGED <<devVars, userVars, parseVars, proxyVars>>

\* api.js:111-116: no options besides method and body, so the defaults apply
renderTemplate == Call("template_render", DefaultRetries)

\* api.js:150-158: no options besides method and body, so the defaults apply
saveProblem == Call("save_problem", DefaultRetries)

\* the completion request of user/page.jsx:198, sent through apiFetch like the
\* other POST helpers of api.js, with the default options
generateWithLlm == Call("generate_with_llm", DefaultRetries)

\* api.js:27-29 then 31-39: the backoff timer of a retry fires and the request goes out
Sleep ==
    /\ pc = "wait"
    /\ waits' = Append(waits, Backoff(attempt))
    /\ sent' = sent + 1
    /\ pc' = "fetch"
    /\ UNCHANGED <<path, retries, attempt, lastError, log, result, committed>>
    /\ UNCHANGED <<devVars, userVars, parseVars, proxyVars>>

\* `continue` with lastError = e: the next iteration, or api.js:92 when the loop ends
\* A loop that would keep the error of the first failed attempt.
ContinueKeepingFirst(e) ==
    /\ lastError' = (IF lastError.type = "error" THEN lastError ELSE e)
    /\ attempt' = attempt + 1
    /\ IF LoopGuard(attempt + 1, retries)
       THEN pc' = "wait" /\ result' = result
       ELSE pc' = "done" /\ result' = lastError'

Continue(e) ==
    /\ lastError' = e
    /\ attempt' = attempt + 1
    /\ IF LoopGuard(attempt + 1, retries)
       THEN pc' = "wait" /\ result' = result
       ELSE pc' = "done" /\ result' = e

\* api.js:34-88: the request in flight ends in o and the attempt is evaluated
Finish(o) ==
    /\ log' = Append(log, o)
    /\ IF o.kind = "abort" THEN Continue(Err("timeout", 0, attempt))             \* 42-45
       ELSE IF o.kind = "neterr"
            THEN Continue(ErrText("connect", 0, attempt, o.detail))              \* 46-47
       ELSE IF ShouldRetry(o.status, attempt, retries)
            THEN Continue(Err("retrying", o.status, attempt))                    \* 52-55
       ELSE /\ result' = Settle(o, attempt)
            /\ pc' = "done"
            /\ UNCHANGED <<lastError, attempt>>

\* what the request of one attempt can end in, as fetch() in the browser sees it
Outcomes == {handler(up) : up \in Upstream} \cup {Abort} \cup {NetErr(m) : m \in FetchMessages}

Attempt ==
    /\ pc = "fetch"
    /\ \E o \in Outcomes :
         /\ Finish(o)
         /\ \E c \in Commits(path, o) : committed' = committed + c
    /\ UNCHANGED <<path, retries, sent, waits>>
    /\ UNCHANGED <<devVars, userVars, parseVars, proxyVars>>

ApiInit ==
    /\ pc = "idle"
    /\ path = "template_render"
    /\ retries = 0
    /\ attempt = 0
    /\ lastError = NoError
    /\ sent = 0
    /\ waits = <<>>
    /\ log = <<>>
    /\ result = NoError
    /\ committed = 0

----------------------------------------------------------------------------
(* DevModePage (dev/page.jsx)                                              *)
(* The record dev holds the useState values of the page that the pipeline  *)
(* reads or writes. Of the status line (setStatus) dev.status keeps which   *)
(* failure message it shows: "render_failed", "rag_no_data", "rag_failed",  *)
(* "save_failed", "pdf_failed", "log_failed"; any other message is "info".  *)
(* A handler is enabled when its button can be pressed: the button is not  *)
(* disabled and its card is interactive (currentStep gate of the card).    *)

\* pending remote calls a page is modelled with at the same time
MaxCalls == 2

\* A text is a sequence of parts; the empty text is <<>>.
Empty == <<>>

\* the templates useTemplates() offers
Templates == {"t1"}

\* data.rendered_prompt || data.rendered (dev/page.jsx:120): a prompt without
\* an output-format section, and a prompt that has one
Rendered == {<<"rendered">>, <<"rendered+json">>}

\* dev/page.jsx:122, the test for an output-format section in the rendered text
hasOutputSpec(rendered) == rendered = <<"rendered+json">>

\* constants.js:50-83
OUTPUT_FORMAT_INSTRUCTION == <<"output_format">>

\* what the user can type into the reference problem field: nothing or a problem
ReferenceStems == {"", "ref"}

\* what the user can paste as LLM output: nothing, blanks only, a JSON answer, prose
LlmOutputs == {"", " ", "{json}", "prose"}

\* String.prototype.trim on the texts above
trim(t) == IF t = " " THEN "" ELSE t

\* constants.js:89-105
buildReferencePromptSection(referenceStem) ==
    IF trim(referenceStem) = "" THEN Empty ELSE <<"reference", trim(referenceStem)>>

\* parsedProblem === null
NoProblem == [of |-> ""]

\* dev/page.jsx:175-219 seen from the workflow: the record that extractJson and
\* the normalisation make of the output text t (the fallback record for prose)
parsed(t) == [of |-> trim(t)]

\* dev/page.jsx:303
finalPrompt == IF dev.ragPrompt # Empty THEN dev.ragPrompt ELSE dev.basePrompt

DevCall(o, a) == [op |-> o, arg |-> a]

\* an async handler reaches its await: the request is on its way to apiFetch
DevAwait(c) == devCalls' = devCalls \cup {c}

DevInit ==
    /\ dev = [templateId |-> "", referenceStem |-> "",
              basePrompt |-> Empty, ragPrompt |-> Empty, retrievedChunks |-> 0,
              ragSkipped |-> FALSE, llmOutput |-> "", parsedProblem |-> NoProblem,
              parseError |-> "", savedProblemId |-> "", pdfUrl |-> "",
              pdfWorking |-> FALSE, currentStep |-> 1, status |-> ""]
    /\ devCalls = {}

\* dev/page.jsx:94-109
onSelectTemplate(id) ==
    /\ dev' = [dev EXCEPT !.templateId = id, !.basePrompt = Empty, !.ragPrompt = Empty,
                          !.retrievedChunks = 0, !.ragSkipped = FALSE, !.currentStep = 1]
    /\ UNCHANGED devCalls

\* dev/page.jsx:328
onSubjectChange ==
    /\ dev.templateId # ""
    /\ dev' = [dev EXCEPT !.templateId = ""]
    /\ UNCHANGED devCalls

\* dev/page.jsx:352, typing into the reference problem field
setReferenceStem(v) ==
    /\ v # dev.referenceStem
    /\ dev' = [dev EXCEPT !.referenceStem = v]
    /\ UNCHANGED devCalls

\* dev/page.jsx:362-364, the user rewrites the generated prompt to v (the field
\* is shown while the prompt is non-empty)
setBasePrompt(v) ==
    /\ dev.basePrompt # Empty /\ v # dev.basePrompt
    /\ dev' = [dev EXCEPT !.basePrompt = v]
    /\ UNCHANGED devCalls

\* dev/page.jsx:427-429, the user rewrites the RAG prompt to v (the field is
\* shown while the prompt is non-empty, and interactive from step 2)
setRagPrompt(v) ==
    /\ dev.currentStep >= 2 /\ dev.ragPrompt # Empty /\ v # dev.ragPrompt
    /\ dev' = [dev EXCEPT !.ragPrompt = v]
    /\ UNCHANGED devCalls

\* dev/page.jsx:112-119 up to the await; the button is enabled by line 358
generateBasePrompt ==
    /\ dev.templateId # ""
    /\ Cardinality(devCalls) < MaxCalls
    /\ IF dev.templateId = ""
       THEN dev' = [dev EXCEPT !.status = "info"] /\ UNCHANGED devCalls
       ELSE /\ dev' = [dev EXCEPT !.status = "info"]
            /\ DevAwait(DevCall("renderTemplate", dev.referenceStem))

\* dev/page.jsx:120-131, after the await: r is what renderTemplate returned or threw
generateBasePromptDone(c, r) ==
    /\ c \in devCalls /\ c.op = "renderTemplate"
    /\ devCalls' = devCalls \ {c}
    /\ IF r.ok
       THEN dev' = [dev EXCEPT
                !.basePrompt = (IF hasOutputSpec(r.rendered) THEN r.rendered
                                ELSE r.rendered \o OUTPUT_FORMAT_INSTRUCTION)
                               \o buildReferencePromptSection(c.arg),
                !.ragPrompt = Empty, !.retrievedChunks = 0, !.ragSkipped = FALSE,
                !.currentStep = 2, !.status = "info"]
       ELSE dev' = [dev EXCEPT !.status = "render_failed"]

RenderResults ==
    {[ok |-> TRUE, rendered |-> x] : x \in Rendered} \cup {[ok |-> FALSE, rendered |-> Empty]}

\* dev/page.jsx:135-146 up to the await; enabled by lines 373 and 375
injectRag ==
    /\ dev.currentStep >= 2 /\ dev.basePrompt # Empty
    /\ Cardinality(devCalls) < MaxCalls
    /\ IF dev.basePrompt = Empty
       THEN dev' = [dev EXCEPT !.status = "info"] /\ UNCHANGED devCalls
       ELSE /\ dev' = [dev EXCEPT !.status = "info"]
            /\ DevAwait(DevCall("assemblePrompt", ""))

\* what assemblePrompt returns: data.prompt_summarized || data.prompt || '' and
\* the number of data.retrieved entries; or the error it throws, whose message
\* may contain 'empty vocabulary' / 'retrieval failed' (dev/page.jsx:154)
RagResults ==
    {[ok |-> TRUE, prompt |-> q, retrieved |-> n, msg |-> ""] :
        q \in {Empty, <<"rag">>}, n \in {0, 1}}
    \cup {[ok |-> FALSE, prompt |-> Empty, retrieved |-> 0, msg |-> m] :
        m \in {"empty vocabulary", "other"}}

\* dev/page.jsx:147-159, after the await
injectRagDone(c, r) ==
    /\ c \in devCalls /\ c.op = "assemblePrompt"
    /\ devCalls' = devCalls \ {c}
    /\ IF r.ok
       THEN dev' = [dev EXCEPT !.ragPrompt = r.prompt, !.retrievedChunks = r.retrieved,
                               !.ragSkipped = FALSE, !.currentStep = 3,
                               !.status = "info"]
       ELSE dev' = [dev EXCEPT !.status = IF r.msg = "empty vocabulary"
                                          THEN "rag_no_data" ELSE "rag_failed"]

\* the skip button can be pressed: its card is interactive (dev/page.jsx:373)
\* and the button is not disabled (line 379)
canSkipRag == dev.currentStep >= 2 /\ dev.basePrompt # Empty

\* skipRag that leaves the RAG prompt of an earlier injection in place
skipRagKeepingRagPrompt ==
    /\ canSkipRag
    /\ dev' = [dev EXCEPT !.ragSkipped = TRUE, !.retrievedChunks = 0,
                          !.currentStep = 3, !.status = "info"]
    /\ UNCHANGED devCalls

\* dev/page.jsx:162-168
skipRag ==
    /\ canSkipRag
    /\ dev' = [dev EXCEPT !.ragSkipped = TRUE, !.ragPrompt = Empty,
                          !.retrievedChunks = 0, !.currentStep = 3,
                          !.status = "info"]
    /\ UNCHANGED devCalls

\* dev/page.jsx:494-501, the output text area; interactive from step 3 (line 493)
\* A change handler that would keep the parsed record and the saved id.
setLlmOutputKeepingRecord(v) ==
    /\ dev.currentStep >= 3 /\ v # dev.llmOutput
    /\ dev' = [dev EXCEPT !.llmOutput = v, !.parseError = "",
                          !.currentStep = IF v # "" /\ dev.currentStep < 4
                                          THEN 4 ELSE dev.currentStep]
    /\ UNCHANGED devCalls

setLlmOutput(v) ==
    /\ dev.currentStep >= 3 /\ v # dev.llmOutput
    /\ dev' = [dev EXCEPT !.llmOutput = v, !.parsedProblem = NoProblem,
                          !.parseError = "", !.savedProblemId = "",
                          !.currentStep = IF v # "" /\ dev.currentStep < 4
                                          THEN 4 ELSE dev.currentStep]
    /\ UNCHANGED devCalls

\* dev/page.jsx:171-220; enabled by lines 493 and 505
parseLlmOutput ==
    /\ dev.currentStep >= 3 /\ dev.llmOutput # ""
    /\ IF trim(dev.llmOutput) = ""
       THEN dev' = [dev EXCEPT !.parseError = "empty"]
       ELSE dev' = [dev EXCEPT !.parsedProblem = parsed(dev.llmOutput),
                               !.parseError = "", !.status = "info"]
    /\ UNCHANGED devCalls

\* dev/page.jsx:223-234 up to the await; enabled by lines 493 and 509
saveToProblemsDb ==
    /\ dev.currentStep >= 3 /\ dev.parsedProblem # NoProblem
    /\ Cardinality(devCalls) < MaxCalls
    /\ IF dev.parsedProblem = NoProblem
       THEN dev' = [dev EXCEPT !.status = "info"] /\ UNCHANGED devCalls
       ELSE /\ dev' = [dev EXCEPT !.status = "info"]
            /\ DevAwait(DevCall("saveProblem", dev.parsedProblem.of))

\* what saveProblem returns (with or without inserted_id) or the error it
\* throws, whose message may contain 'missing_stem' / 'validation_failed'
SaveResults ==
    {[ok |-> TRUE, hasId |-> h, msg |-> ""] : h \in BOOLEAN}
    \cup {[ok |-> FALSE, hasId |-> FALSE, msg |-> m] :
            m \in {"missing_stem", "validation_failed", "other"}}

\* dev/page.jsx:235-247, after the await. The id the store returns is written
\* as the record it was given for.
saveToProblemsDbDone(c, r) ==
    /\ c \in devCalls /\ c.op = "saveProblem"
    /\ devCalls' = devCalls \ {c}
    /\ IF r.ok
       THEN dev' = [dev EXCEPT !.savedProblemId = IF r.hasId THEN c.arg ELSE "",
                               !.currentStep = 5, !.status = "info"]
       ELSE dev' = [dev EXCEPT !.status = "save_failed"]

\* dev/page.jsx:251-256 up to the await; enabled by lines 493 and 513
compilePdf ==
    /\ dev.currentStep >= 3 /\ dev.llmOutput # "" /\ ~dev.pdfWorking
    /\ Cardinality(devCalls) < MaxCalls
    /\ IF trim(dev.llmOutput) = ""
       THEN dev' = [dev EXCEPT !.status = "info"] /\ UNCHANGED devCalls
       ELSE /\ dev' = [dev EXCEPT !.pdfWorking = TRUE, !.status = "info"]
            /\ DevAwait(DevCall("generatePdf", ""))

\* what generatePdf ends in: data.pdf_url, data.error, neither, or a thrown error
PdfResults == {"pdf_url", "error", "no_engine", "thrown"}

\* dev/page.jsx:257-267, after the await
compilePdfDone(c, r) ==
    /\ c \in devCalls /\ c.op = "generatePdf"
    /\ devCalls' = devCalls \ {c}
    /\ IF r = "pdf_url"
       THEN dev' = [dev EXCEPT !.pdfUrl = "url", !.pdfWorking = FALSE,
                               !.status = "info"]
       ELSE dev' = [dev EXCEPT !.pdfWorking = FALSE, !.status = "pdf_failed"]

\* dev/page.jsx:271-288 up to the await; enabled by lines 585 and 610
saveLog ==
    /\ dev.currentStep >= 5 /\ dev.llmOutput # ""
    /\ Cardinality(devCalls) < MaxCalls
    /\ IF dev.llmOutput = ""
       THEN dev' = [dev EXCEPT !.status = "info"] /\ UNCHANGED devCalls
       ELSE /\ dev' = [dev EXCEPT !.status = "info"]
            /\ DevAwait(DevCall("saveTuningLog", ""))

\* dev/page.jsx:289-291, after the await (the tuning form fields it clears are
\* not part of the pipeline state)
saveLogDone(c, ok) ==
    /\ c \in devCalls /\ c.op = "saveTuningLog"
    /\ devCalls' = devCalls \ {c}
    /\ dev' = [dev EXCEPT !.status = IF ok THEN "info" ELSE "log_failed"]

\* dev/page.jsx:294-301; the button of line 316 is always enabled
resetAll ==
    /\ dev' = [dev EXCEPT !.basePrompt = Empty, !.ragPrompt = Empty,
                          !.retrievedChunks = 0, !.ragSkipped = FALSE,
                          !.llmOutput = "", !.parsedProblem = NoProblem,
                          !.parseError = "", !.savedProblemId = "",
                          !.referenceStem = "", !.pdfUrl = "",
                          !.currentStep = 1, !.status = "info"]
    /\ UNCHANGED devCalls

\* a step of DevModePage leaves the other components alone
DevOnly == UNCHANGED <<apiVars, userVars, parseVars, proxyVars>>

DevNext ==
    \/ \E id \in Templates : onSelectTemplate(id) /\ DevOnly
    \/ onSubjectChange /\ DevOnly
    \/ \E v \in ReferenceStems : setReferenceStem(v) /\ DevOnly
    \/ setBasePrompt(Empty) /\ DevOnly
    \/ setRagPrompt(Empty) /\ DevOnly
    \/ generateBasePrompt /\ DevOnly
    \/ \E c \in devCalls, r \in RenderResults : generateBasePromptDone(c, r) /\ DevOnly
    \/ injectRag /\ DevOnly
    \/ \E c \in devCalls, r \in RagResults : injectRagDone(c, r) /\ DevOnly
    \/ skipRag /\ DevOnly
    \/ \E v \in LlmOutputs : setLlmOutput(v) /\ DevOnly
    \/ parseLlmOutput /\ DevOnly
    \/ saveToProblemsDb /\ DevOnly
    \/ \E c \in devCalls, r \in SaveResults : saveToProblemsDbDone(c, r) /\ DevOnly
    \/ compilePdf /\ DevOnly
    \/ \E c \in devCalls, r \in PdfResults : compilePdfDone(c, r) /\ DevOnly
    \/ saveLog /\ DevOnly
    \/ \E c \in devCalls, ok \in BOOLEAN : saveLogDone(c, ok) /\ DevOnly
    \/ resetAll /\ DevOnly

----------------------------------------------------------------------------
(* UserModePage (user/page.jsx)                                            *)
(* The record user holds the useState values of the wizard. A handler is   *)
(* enabled when the element that calls it is rendered and not disabled.    *)

\* what the user can have in the LaTeX fields: nothing, blanks, a document, an edited one
Latex == {"", " ", "latex", "edited"}

UserCall(o, a) == [op |-> o, arg |-> a]
UserAwait(c) == userCalls' = userCalls \cup {c}

UserInit ==
    /\ user = [step |-> 1, status |-> "", templateId |-> "", mode |-> "auto",
               prompt |-> "", renderContext |-> "null", generatedLatex |-> "",
               pdfUrl |-> "", generating |-> FALSE, pdfWorking |-> FALSE,
               llmOutput |-> ""]
    /\ userCalls = {}

\* user/page.jsx:135-142, the effect that picks the first template once the
\* list is loaded; user/page.jsx:144-151, a click on a template card (step 1)
userSelectTemplate(id) ==
    /\ user.templateId = "" \/ user.step = 1
    /\ user.templateId # id
    /\ user' = [user EXCEPT !.templateId = id]
    /\ UNCHANGED userCalls

\* user/page.jsx:453 and 466, the mode switch of step 2
setMode(m) ==
    /\ user.step = 2 /\ user.mode # m
    /\ user' = [user EXCEPT !.mode = m]
    /\ UNCHANGED userCalls

\* user/page.jsx:294-299
canNext == IF user.step = 1 THEN user.templateId # "" ELSE user.step \in {2, 3}

\* user/page.jsx:301-309, the branch that only moves on; buttons of lines 807-816
goNext ==
    /\ user.step \in {1, 2} /\ (user.step = 1 => canNext)
    /\ IF canNext THEN user' = [user EXCEPT !.step = user.step + 1] ELSE user' = user
    /\ UNCHANGED userCalls

\* user/page.jsx:311-314; buttons of lines 789-798
goBack ==
    /\ (user.step > 1 /\ user.step < 4) \/ user.step = 5
    /\ user' = [user EXCEPT !.step = IF user.step > 1 /\ user.step < 4 THEN user.step - 1
                                     ELSE IF user.step = 5 THEN 3 ELSE user.step]
    /\ UNCHANGED userCalls

\* the reset button is rendered on step 5 only (user/page.jsx:802-806)
canReset == user.step = 5

\* user/page.jsx:316-324
resetWizard ==
    /\ canReset
    /\ user' = [user EXCEPT !.step = 1, !.generatedLatex = "", !.pdfUrl = "",
                            !.prompt = "", !.renderContext = "null",
                            !.llmOutput = "", !.status = ""]
    /\ UNCHANGED userCalls

\* the button that starts the automatic generation: rendered on step 3 in auto
\* mode, disabled without a template or while generating (user/page.jsx:817-820)
canAutoGenerate ==
    user.step = 3 /\ user.mode = "auto" /\ user.templateId # "" /\ ~user.generating

\* user/page.jsx:156-180, goNext on step 3 in auto mode, up to the first await
handleAutoGenerate ==
    /\ canAutoGenerate
    /\ Cardinality(userCalls) < MaxCalls
    /\ IF user.templateId = ""
       THEN user' = [user EXCEPT !.status = "select_template"] /\ UNCHANGED userCalls
       ELSE /\ user' = [user EXCEPT !.generating = TRUE, !.generatedLatex = "",
                                    !.pdfUrl = "", !.step = 4, !.status = "step1"]
            /\ UserAwait(UserCall("renderTemplate:auto", ""))

\* what renderTemplate returns: data.rendered_prompt || data.rendered || '' and
\* data.context || null; or a thrown error
UserRenderResults ==
    {[ok |-> TRUE, rendered |-> x, context |-> k] :
        x \in {"", " ", "prompt"}, k \in {"null", "context"}}
    \cup {[ok |-> FALSE, rendered |-> "", context |-> "null"]}

\* user/page.jsx:181-203, from the first await to the second
handleAutoGenerateRendered(c, r) ==
    /\ c \in userCalls /\ c.op = "renderTemplate:auto"
    /\ IF ~r.ok
       THEN /\ user' = [user EXCEPT !.status = "render_error", !.generating = FALSE]
            /\ userCalls' = userCalls \ {c}
       ELSE IF trim(r.rendered) = ""
       THEN /\ user' = [user EXCEPT !.renderContext = r.context, !.prompt = r.rendered,
                                    !.status = "empty_prompt", !.generating = FALSE]
            /\ userCalls' = userCalls \ {c}
       ELSE /\ user' = [user EXCEPT !.renderContext = r.context, !.prompt = r.rendered,
                                    !.status = "step2"]
            /\ userCalls' = (userCalls \ {c}) \cup {UserCall("generateWithLlm", r.rendered)}

\* what generateWithLlm returns (data.error; data.latex; data.pdf_url or
\* data.pdf_error or neither) or that it threw
LlmResults ==
    {[thrown |-> FALSE, error |-> FALSE, latex |-> l, pdf |-> p] :
        l \in {"", "latex"}, p \in {"pdf_url", "pdf_error", "none"}}
    \cup {[thrown |-> FALSE, error |-> TRUE, latex |-> "", pdf |-> "none"],
          [thrown |-> TRUE, error |-> FALSE, latex |-> "", pdf |-> "none"]}

\* handleAutoGenerateDone with a failure path that also drops the prompt
handleAutoGenerateDoneDroppingPrompt(c, r) ==
    /\ c \in userCalls /\ c.op = "generateWithLlm"
    /\ userCalls' = userCalls \ {c}
    /\ IF r.thrown \/ r.error
       THEN user' = [user EXCEPT !.status = IF r.thrown THEN "llm_thrown" ELSE "llm_error",
                                 !.generating = FALSE, !.prompt = ""]
       ELSE user' = [user EXCEPT
                !.generatedLatex = IF r.latex # "" THEN r.latex ELSE @,
                !.llmOutput = IF r.latex # "" THEN r.latex ELSE @,
                !.pdfUrl = IF r.pdf = "pdf_url" THEN "url" ELSE @,
                !.status = IF r.pdf = "pdf_url" THEN "pdf_shown"
                           ELSE IF r.pdf = "pdf_error" THEN "pdf_convert_failed"
                           ELSE "no_engine",
                !.step = 5, !.generating = FALSE]

\* user/page.jsx:205-231, after the second await
handleAutoGenerateDone(c, r) ==
    /\ c \in userCalls /\ c.op = "generateWithLlm"
    /\ userCalls' = userCalls \ {c}
    /\ IF r.thrown
       THEN user' = [user EXCEPT !.status = "llm_thrown", !.generating = FALSE]
       ELSE IF r.error
       THEN user' = [user EXCEPT !.status = "llm_error", !.generating = FALSE]
       ELSE user' = [user EXCEPT
                !.generatedLatex = IF r.latex # "" THEN r.latex ELSE @,
                !.llmOutput = IF r.latex # "" THEN r.latex ELSE @,
                !.pdfUrl = IF r.pdf = "pdf_url" THEN "url" ELSE @,
                !.status = IF r.pdf = "pdf_url" THEN "pdf_shown"
                           ELSE IF r.pdf = "pdf_error" THEN "pdf_convert_failed"
                           ELSE "no_engine",
                !.step = 5, !.generating = FALSE]

\* user/page.jsx:235-253, goNext on step 3 in manual mode (button of lines
\* 838-842), up to the await
generatePrompt ==
    /\ user.step = 3 /\ user.mode = "manual" /\ user.templateId # ""
    /\ Cardinality(userCalls) < MaxCalls
    /\ IF user.templateId = ""
       THEN user' = [user EXCEPT !.status = "select_template"] /\ UNCHANGED userCalls
       ELSE /\ user' = [user EXCEPT !.status = "rendering"]
            /\ UserAwait(UserCall("renderTemplate:manual", ""))

\* user/page.jsx:254-264, after the await
generatePromptDone(c, r) ==
    /\ c \in userCalls /\ c.op = "renderTemplate:manual"
    /\ userCalls' = userCalls \ {c}
    /\ IF r.ok
       THEN user' = [user EXCEPT !.renderContext = r.context, !.prompt = r.rendered,
                                 !.status = "prompt_done", !.step = 5]
       ELSE user' = [user EXCEPT !.status = "error"]

\* user/page.jsx:685-688, editing the generated LaTeX (auto result card, step 5)
setGeneratedLatex(v) ==
    /\ user.step = 5 /\ user.mode = "auto" /\ user.generatedLatex # ""
    /\ v # user.generatedLatex
    /\ user' = [user EXCEPT !.generatedLatex = v, !.llmOutput = v]
    /\ UNCHANGED userCalls

\* user/page.jsx:729, editing the prompt (manual result card, step 5)
userSetPrompt(v) ==
    /\ user.step = 5 /\ user.mode = "manual" /\ user.prompt # ""
    /\ v # user.prompt
    /\ user' = [user EXCEPT !.prompt = v]
    /\ UNCHANGED userCalls

\* user/page.jsx:743-749, pasting the LLM output (manual result card, step 5)
userSetLlmOutput(v) ==
    /\ user.step = 5 /\ user.mode = "manual" /\ user.prompt # ""
    /\ v # user.llmOutput
    /\ user' = [user EXCEPT !.llmOutput = v]
    /\ UNCHANGED userCalls

\* user/page.jsx:268-277 up to the await. Called with generatedLatex by the
\* button of line 693 (auto card) and without argument by the button of lines
\* 751-753 (manual card).
userCompilePdf ==
    /\ user.step = 5 /\ ~user.pdfWorking
    /\ \/ user.mode = "auto" /\ user.generatedLatex # ""
       \/ user.mode = "manual" /\ user.prompt # "" /\ user.llmOutput # ""
    /\ Cardinality(userCalls) < MaxCalls
    /\ LET latex == IF user.mode = "auto" THEN user.generatedLatex ELSE ""
           src == IF latex # "" THEN latex ELSE user.llmOutput
       IN  IF trim(src) = ""
           THEN user' = [user EXCEPT !.status = "need_latex"] /\ UNCHANGED userCalls
           ELSE /\ user' = [user EXCEPT !.pdfWorking = TRUE, !.status = "pdf_working"]
                /\ UserAwait(UserCall("generatePdf", src))

\* user/page.jsx:278-290, after the await
userCompilePdfDone(c, r) ==
    /\ c \in userCalls /\ c.op = "generatePdf"
    /\ userCalls' = userCalls \ {c}
    /\ IF r = "pdf_url"
       THEN user' = [user EXCEPT !.pdfUrl = "url", !.status = "pdf_opened",
                                 !.pdfWorking = FALSE]
       ELSE user' = [user EXCEPT !.status = "pdf_failed", !.pdfWorking = FALSE]

\* a step of UserModePage leaves the other components alone
UserOnly == UNCHANGED <<apiVars, devVars, parseVars, proxyVars>>

UserNext ==
    \/ \E id \in Templates : userSelectTemplate(id) /\ UserOnly
    \/ \E m \in {"auto", "manual"} : setMode(m) /\ UserOnly
    \/ goNext /\ UserOnly
    \/ goBack /\ UserOnly
    \/ resetWizard /\ UserOnly
    \/ handleAutoGenerate /\ UserOnly
    \/ \E c \in userCalls, r \in UserRenderResults : handleAutoGenerateRendered(c, r) /\ UserOnly
    \/ \E c \in userCalls, r \in LlmResults : handleAutoGenerateDone(c, r) /\ UserOnly
    \/ generatePrompt /\ UserOnly
    \/ \E c \in userCalls, r \in UserRenderResults : generatePromptDone(c, r) /\ UserOnly
    \/ \E v \in Latex : setGeneratedLatex(v) /\ UserOnly
    \/ \E v \in {"", " ", "prompt"} : userSetPrompt(v) /\ UserOnly
    \/ \E v \in Latex : userSetLlmOutput(v) /\ UserOnly
    \/ userCompilePdf /\ UserOnly
    \/ \E c \in userCalls, r \in PdfResults : userCompilePdfDone(c, r) /\ UserOnly


----------------------------------------------------------------------------
(* The parse stage (dev/page.jsx:35-54 and 171-220) on texts                *)
(* A text is a sequence of characters (one-character strings). A JavaScript *)
(* value is a pair <<type, payload>>.                                       *)

Ws == {" ", "\n"}
Digits == {"0", "1", "2", "3", "4", "5", "6", "7", "8", "9"}

Undefined == <<"undefined", <<>>>>
Null == <<"null", <<>>>>
JBool(b) == <<"boolean", b>>
\* a number, written as JSON writes it
JNum(s) == <<"number", s>>
JStr(s) == <<"string", s>>
JArr(es) == <<"array", es>>
\* an object: its properties <<name, value>> in insertion order
JObj(ms) == <<"object", ms>>

\* body of v, with v worked out once, before body
Let(v, body(_)) == CHOOSE r \in {body(x) : x \in {v}} : TRUE

SetMin(S) == Let(S, LAMBDA T : CHOOSE x \in T : \A y \in T : x <= y)
SetMax(S) == Let(S, LAMBDA T : CHOOSE x \in T : \A y \in T : x >= y)

\* String.prototype.trim
trimText(s) ==
    LET I == {i \in 1..Len(s) : s[i] \notin Ws}
    IN  IF I = {} THEN <<>> ELSE SubSeq(s, SetMin(I), SetMax(I))

\* s has the characters of w at position i
HasAt(s, i, w) == i + Len(w) - 1 <= Len(s) /\ SubSeq(s, i, i + Len(w) - 1) = w

\* the first position from i on that holds no whitespace (Len(s) + 1 if none)
skipWs(s, i) ==
    LET I == {j \in i..Len(s) : s[j] \notin Ws}
    IN  IF I = {} THEN Len(s) + 1 ELSE SetMin(I)

\* the end of the run of digits that starts at i (i itself if there is none)
digitsEnd(s, i) ==
    LET I == {j \in i..Len(s) : s[j] \notin Digits}
    IN  IF I = {} THEN Len(s) + 1 ELSE SetMin(I)

\* the properties ms with property k set to v: in place if ms has k, else added
putMember(ms, k, v) ==
    LET I == {i \in 1..Len(ms) : ms[i][1] = k}
    IN  IF I = {} THEN Append(ms, <<k, v>>)
        ELSE [ms EXCEPT ![SetMin(I)] = <<k, v>>]

\* the result of reading one JSON production: the value and where it ends
Fail == [ok |-> FALSE, val |-> Undefined, next |-> 0]
Good(v, n) == [ok |-> TRUE, val |-> v, next |-> n]

\* JSON string at i (s[i] is the opening quote); no escapes, no raw newline
parseString(s, i) ==
    LET J == {j \in (i + 1)..Len(s) : s[j] = "\""}
    IN  IF J = {} THEN Fail
        ELSE LET e == SetMin(J)
                 body == SubSeq(s, i + 1, e - 1)
             IN  IF \E k \in 1..Len(body) : body[k] \in {"\n", "\\"}
                 THEN Fail ELSE Good(JStr(body), e + 1)

\* JSON number at i: -? int frac? exp?
parseNumber(s, i) ==
    LET a == IF s[i] = "-" THEN i + 1 ELSE i
        b == digitsEnd(s, a)
        c == IF b <= Len(s) /\ s[b] = "." THEN digitsEnd(s, b + 1) ELSE b
        x == IF c <= Len(s) /\ s[c] \in {"e", "E"}
             THEN IF c + 1 <= Len(s) /\ s[c + 1] \in {"+", "-"} THEN c + 2 ELSE c + 1
             ELSE c
        d == IF x > c THEN digitsEnd(s, x) ELSE c
    IN  IF b = a THEN Fail                                  \* no digit
        ELSE IF b - a > 1 /\ s[a] = "0" THEN Fail          \* leading zero
        ELSE IF c = b + 1 THEN Fail                         \* "." without digits
        ELSE IF x > c /\ d = x THEN Fail                    \* exponent without digits
        ELSE Good(JNum(SubSeq(s, i, d - 1)), d)

RECURSIVE parseValue(_, _), parseMembers(_, _, _), parseElements(_, _, _)

\* JSON value at i (whitespace before it already skipped)
parseValue(s, at) ==
    Let(at, LAMBDA i :
    IF i > Len(s) THEN Fail
    ELSE IF s[i] = "{" THEN
        Let(skipWs(s, i + 1), LAMBDA j :
            IF j <= Len(s) /\ s[j] = "}" THEN Good(JObj(<<>>), j + 1)
            ELSE parseMembers(s, j, <<>>))
    ELSE IF s[i] = "[" THEN
        Let(skipWs(s, i + 1), LAMBDA j :
            IF j <= Len(s) /\ s[j] = "]" THEN Good(JArr(<<>>), j + 1)
            ELSE parseElements(s, j, <<>>))
    ELSE IF s[i] = "\"" THEN parseString(s, i)
    ELSE IF s[i] = "-" \/ s[i] \in Digits THEN parseNumber(s, i)
    ELSE IF HasAt(s, i, <<"t", "r", "u", "e">>) THEN Good(JBool(TRUE), i + 4)
    ELSE IF HasAt(s, i, <<"f", "a", "l", "s", "e">>) THEN Good(JBool(FALSE), i + 5)
    ELSE IF HasAt(s, i, <<"n", "u", "l", "l">>) THEN Good(Null, i + 4)
    ELSE Fail)

\* the members of an object from i on, after the members acc
parseMembers(s, i, acc) ==
    IF i > Len(s) \/ s[i] # "\"" THEN Fail
    ELSE Let(parseString(s, i), LAMBDA k :
         IF ~k.ok THEN Fail
         ELSE Let(skipWs(s, k.next), LAMBDA c :
              IF c > Len(s) \/ s[c] # ":" THEN Fail
              ELSE Let(parseValue(s, skipWs(s, c + 1)), LAMBDA v :
                   IF ~v.ok THEN Fail
                   ELSE Let(<<skipWs(s, v.next), putMember(acc, k.val[2], v.val)>>, LAMBDA dm :
                        LET d == dm[1]
                            ms == dm[2]
                        IN  IF d > Len(s) THEN Fail
                            ELSE IF s[d] = "}" THEN Good(JObj(ms), d + 1)
                            ELSE IF s[d] = "," THEN parseMembers(s, skipWs(s, d + 1), ms)
                            ELSE Fail))))

\* the elements of an array from i on, after the elements acc
parseElements(s, i, acc) ==
    Let(parseValue(s, i), LAMBDA v :
    IF ~v.ok THEN Fail
    ELSE Let(<<skipWs(s, v.next), Append(acc, v.val)>>, LAMBDA de :
         LET d == de[1]
             es == de[2]
         IN  IF d > Len(s) THEN Fail
             ELSE IF s[d] = "]" THEN Good(JArr(es), d + 1)
             ELSE IF s[d] = "," THEN parseElements(s, skipWs(s, d + 1), es)
             ELSE Fail))

\* JSON.parse: the value, or that it threw
JSONparse(s) ==
    Let(s, LAMBDA t :
    Let(parseValue(t, skipWs(t, 1)), LAMBDA v :
        IF v.ok /\ skipWs(t, v.next) = Len(t) + 1
        THEN [ok |-> TRUE, val |-> v.val]
        ELSE [ok |-> FALSE, val |-> Undefined]))

\* the backtick character
Bq == "bq"

\* the fence of a code block: three backticks
Fence == <<Bq, Bq, Bq>>
JsonTag == <<"j", "s", "o", "n">>

\* where the capture group of the fence pattern (dev/page.jsx:37) begins when the
\* match starts at i: after the fence, the optional tag and the whitespace
captureStart(s, i) ==
    skipWs(s, IF HasAt(s, i + 3, JsonTag) THEN i + 7 ELSE i + 3)

\* the closing fences of a match that starts at i
closers(s, i) == {j \in captureStart(s, i)..Len(s) : HasAt(s, j, Fence)}

\* dev/page.jsx:37, text.match(...): the leftmost opening fence that has a
\* closing fence, and the lazy capture up to the first closing fence
fenced(s) ==
    LET starts == {i \in 1..Len(s) : HasAt(s, i, Fence) /\ closers(s, i) # {}}
    IN  IF starts = {} THEN [matched |-> FALSE, capture |-> <<>>]
        ELSE LET i == SetMin(starts)
             IN  [matched |-> TRUE,
                  capture |-> SubSeq(s, captureStart(s, i), SetMin(closers(s, i)) - 1)]

\* dev/page.jsx:44-46: depth after text[i], counted from braceStart b
depthAt(s, b, i) ==
    Cardinality({j \in b..i : s[j] = "{"}) - Cardinality({j \in b..i : s[j] = "}"})

\* dev/page.jsx:42-52: the slice from the first "{" to where depth is 0 again
braceSlice(s) ==
    LET opens == {i \in 1..Len(s) : s[i] = "{"}
    IN  IF opens = {} THEN [found |-> FALSE, slice |-> <<>>]
        ELSE LET b == SetMin(opens)
                 ends == {i \in b..Len(s) : depthAt(s, b, i) = 0}
             IN  IF ends = {} THEN [found |-> FALSE, slice |-> <<>>]
                 ELSE [found |-> TRUE, slice |-> SubSeq(s, b, SetMin(ends))]

\* dev/page.jsx:35-54
extractJson(text) ==
    LET \* lines 42-53
        braces == Let(braceSlice(text), LAMBDA b :
                      IF ~b.found THEN Null
                      ELSE Let(JSONparse(b.slice), LAMBDA bj :
                               IF bj.ok THEN bj.val ELSE Null))
    IN  Let(fenced(text), LAMBDA f :
            IF ~f.matched THEN braces
            ELSE Let(JSONparse(trimText(f.capture)), LAMBDA fj :
                     IF fj.ok THEN fj.val ELSE braces))

\* the property names the parse stage reads and writes
kStem == <<"s", "t", "e", "m">>
kStemLatex == <<"s", "t", "e", "m", "_", "l", "a", "t", "e", "x">>
kFinalAnswer == <<"f", "i", "n", "a", "l", "_", "a", "n", "s", "w", "e", "r">>
kChecks == <<"c", "h", "e", "c", "k", "s">>
kDesc == <<"d", "e", "s", "c">>
kOk == <<"o", "k">>

\* an array that was given properties of its own
JArrWith(es, ps) == <<"array+", <<es, ps>>>>

\* ToBoolean
truthy(v) ==
    IF v[1] \in {"undefined", "null"} THEN FALSE
    ELSE IF v[1] = "boolean" THEN v[2]
    ELSE IF v[1] = "string" THEN v[2] # <<>>
    ELSE IF v[1] = "number"
         THEN LET E == {i \in 1..Len(v[2]) : v[2][i] \in {"e", "E"}}
                  m == IF E = {} THEN Len(v[2]) ELSE SetMin(E) - 1
              IN  \E i \in 1..m : v[2][i] \in Digits \ {"0"}
    ELSE TRUE

isArray(v) == v[1] \in {"array", "array+"}

\* v.name for a value v that is neither null nor undefined
getProp(v, name) ==
    LET ms == IF v[1] = "object" THEN v[2] ELSE IF v[1] = "array+" THEN v[2][2] ELSE <<>>
        I == {i \in 1..Len(ms) : ms[i][1] = name}
    IN  IF I = {} THEN Undefined ELSE ms[SetMin(I)][2]

\* v?.name
getPropOpt(v, name) ==
    IF v[1] \in {"undefined", "null"} THEN Undefined ELSE getProp(v, name)

\* v.name = x throws for a primitive v (module code is strict)
canSetProp(v) == v[1] \in {"object", "array", "array+"}

\* v after v.name = x
setProp(v, name, x) ==
    IF v[1] = "object" THEN JObj(putMember(v[2], name, x))
    ELSE IF v[1] = "array" THEN JArrWith(v[2], <<<<name, x>>>>)
    ELSE JArrWith(v[2][1], putMember(v[2][2], name, x))

\* dev/page.jsx:181, the length above which final_answer counts as an explanation
AnswerThreshold == 20

\* dev/page.jsx:180, final_answer.match(/^[^\d-]*(-?[\d]+(?:\.\d+)?)/): the
\* captured token, or <<>> when the pattern does not match
numMatch(s) ==
    LET P == {i \in 1..Len(s) : s[i] \in Digits \cup {"-"}}
    IN  IF P = {} THEN <<>>
        ELSE LET p == SetMin(P)
                 a == IF s[p] = "-" THEN p + 1 ELSE p
                 b == digitsEnd(s, a)
                 c == IF b <= Len(s) /\ s[b] = "." THEN digitsEnd(s, b + 1) ELSE b
             IN  IF b = a THEN <<>>
                 ELSE SubSeq(s, p, (IF c > b + 1 THEN c ELSE b) - 1)

\* dev/page.jsx:178-185
normalizeFinalAnswer(obj) ==
    LET fa == getProp(obj, kFinalAnswer)
    IN  IF fa[1] = "string" /\ numMatch(fa[2]) # <<>> /\ Len(fa[2]) > AnswerThreshold
        THEN setProp(obj, kFinalAnswer, JStr(numMatch(fa[2])))
        ELSE obj

DigitSeq == <<"0", "1", "2", "3", "4", "5", "6", "7", "8", "9">>

RECURSIVE decimal(_)
\* String(n) for a natural number n
decimal(n) ==
    IF n < 10 THEN <<DigitSeq[n + 1]>>
    ELSE decimal(n \div 10) \o <<DigitSeq[(n % 10) + 1]>>

\* the description texts of the placeholder checks (dev/page.jsx:189-190, 199,
\* 211-212), each written as one symbol
GeneratedDesc == JStr(<<"generated:unverified">>)
PaddedDesc == JStr(<<"padded:unverified">>)

check(d, o) == JObj(<<<<kDesc, d>>, <<kOk, o>>>>)

\* dev/page.jsx:193-196, the callback of parsed.checks.map for entry c at index i
normalizeCheck(c, i) ==
    LET d == getPropOpt(c, kDesc)
        o == getPropOpt(c, kOk)
    IN  check(IF truthy(d) THEN d ELSE JStr(<<"c", "h", "e", "c", "k", " ">> \o decimal(i + 1)),
              IF o[1] \in {"undefined", "null"} THEN JBool(FALSE) ELSE o)

\* dev/page.jsx:197-201
padChecks(cs) ==
    IF Len(cs) >= 2 THEN cs
    ELSE IF Len(cs) = 1 THEN cs \o <<check(PaddedDesc, JBool(FALSE))>>
    ELSE <<check(PaddedDesc, JBool(FALSE)), check(PaddedDesc, JBool(FALSE))>>

\* dev/page.jsx:186-202, the new value of parsed.checks
normalizedChecks(obj) ==
    LET cs == getProp(obj, kChecks)
        es == IF cs[1] = "array" THEN cs[2] ELSE cs[2][1]
    IN  IF ~isArray(cs)
        THEN JArr(<<check(GeneratedDesc, JBool(FALSE)), check(GeneratedDesc, JBool(FALSE))>>)
        ELSE JArr(padChecks([i \in 1..Len(es) |-> normalizeCheck(es[i], i - 1)]))

fallbackRecordUntrimmed(text) ==
    JObj(<<<<kStem, JStr(text)>>,
           <<kStemLatex, JStr(text)>>,
           <<kFinalAnswer, JStr(<<>>)>>,
           <<kChecks, JArr(<<check(GeneratedDesc, JBool(FALSE)),
                             check(GeneratedDesc, JBool(FALSE))>>)>>>>)

\* dev/page.jsx:206-214, the record made of a text that holds no JSON
fallbackRecord(text) ==
    JObj(<<<<kStem, JStr(trimText(text))>>,
           <<kStemLatex, JStr(trimText(text))>>,
           <<kFinalAnswer, JStr(<<>>)>>,
           <<kChecks, JArr(<<check(GeneratedDesc, JBool(FALSE)),
                             check(GeneratedDesc, JBool(FALSE))>>)>>>>)

\* what one call of parseLlmOutput leaves behind
ParseRun(threw, problem, error, extracted) ==
    [called |-> TRUE, threw |-> threw, parsedProblem |-> problem,
     parseError |-> error, extracted |-> extracted]

\* dev/page.jsx:171-220 with llmOutput = text and parsedProblem = null before
parseLlmOutputOn(text) ==
    IF trimText(text) = <<>> THEN ParseRun(FALSE, Null, "empty", Undefined)
    ELSE Let(extractJson(text), LAMBDA obj :
             IF truthy(obj)
             THEN IF canSetProp(obj)
                  THEN Let(normalizeFinalAnswer(obj), LAMBDA p1 :
                       Let(normalizedChecks(p1), LAMBDA cs :
                           ParseRun(FALSE, setProp(p1, kChecks, cs), "", obj)))
                  ELSE ParseRun(TRUE, Null, "", obj)
             ELSE ParseRun(FALSE, fallbackRecord(text), "", obj))

ParserInit ==
    /\ llmText = <<>>
    /\ parseRun = [called |-> FALSE, threw |-> FALSE, parsedProblem |-> Null,
                   parseError |-> "", extracted |-> Undefined]


\* ---- the texts the parse stage is run on ----

\* longest run of segments a text is made of
MaxSegments == 3
\* longest checks list written out in a text
MaxChecks == 3
\* longest head of a final_answer text (the rest is padding)
MaxHead == 3

Quote == "\""
quoted(w) == <<Quote>> \o w \o <<Quote>>
member(k, v) == quoted(k) \o <<":">> \o v

RECURSIVE joined(_)
\* the texts of ts in a row, with "," between them
joined(ts) ==
    IF ts = <<>> THEN <<>>
    ELSE IF Len(ts) = 1 THEN ts[1]
    ELSE ts[1] \o <<",">> \o joined(Tail(ts))

RECURSIVE flat(_)
\* the texts of ts in a row
flat(ts) == IF ts = <<>> THEN <<>> ELSE ts[1] \o flat(Tail(ts))

\* every sequence of at most n elements of S
SeqsUpTo(S, n) == UNION {[1..k -> S] : k \in 0..n}

objectText(ms) == <<"{">> \o joined(ms) \o <<"}">>

\* objects as an LLM writes them: plain, nested, and with brace characters
\* inside a string value
ObjectTexts ==
    { objectText(<<member(kStem, quoted(<<"x">>))>>),
      objectText(<<member(kStem, quoted(<<"x">>)), member(<<"a">>, <<"{", "}">>)>>),
      objectText(<<member(kStem, quoted(<<"}">>))>>),
      objectText(<<member(kStem, quoted(<<"{">>))>>),
      objectText(<<member(kStem, quoted(<<"{", "}">>))>>) }

\* a fenced block with the json tag, and one without a tag
jsonBlock(body) == Fence \o JsonTag \o <<"\n">> \o body \o <<"\n">> \o Fence \o <<"\n">>
plainBlock(body) == Fence \o <<"\n">> \o body \o <<"\n">> \o Fence \o <<"\n">>

\* the pieces an output text is made of: prose (with stray braces and
\* numbers), bare objects, fenced json blocks, other fenced blocks
Segments ==
    {<<"a">>, <<" ">>, <<"{">>, <<"}">>, <<"4", "2">>}
    \cup ObjectTexts
    \cup {jsonBlock(o) : o \in ObjectTexts}
    \cup {plainBlock(b) : b \in {<<"a">>, <<"a", "{">>, <<"4", "2">>}}

StructureTexts == {flat(ts) : ts \in SeqsUpTo(Segments, MaxSegments)}

\* entries of a checks list
CheckTexts ==
    { <<"n", "u", "l", "l">>, <<"1">>, <<"{", "}">>,
      objectText(<<member(kDesc, quoted(<<"d">>))>>),
      objectText(<<member(kOk, <<"t", "r", "u", "e">>)>>),
      objectText(<<member(kDesc, <<"5">>), member(kOk, quoted(<<"y">>))>>),
      objectText(<<member(kDesc, quoted(<<>>)), member(kOk, <<"n", "u", "l", "l">>)>>) }

\* the checks member of an object: absent (<<>>), not a list, or a list
ChecksMembers ==
    {<<>>, member(kChecks, <<"n", "u", "l", "l">>), member(kChecks, quoted(<<"x">>))}
    \cup {member(kChecks, <<"[">> \o joined(cs) \o <<"]">>) : cs \in SeqsUpTo(CheckTexts, MaxChecks)}

\* the stem member: absent, empty, or a text
StemMembers == {<<>>, member(kStem, quoted(<<>>)), member(kStem, quoted(<<"x">>))}

\* s followed by as many "x" as it takes to be n characters long
padded(s, n) == s \o [i \in 1..(n - Len(s)) |-> "x"]

\* the answer "-4", a blank and a remark of six characters (nine in all)
RemarkedAnswer == <<"-", "4", " ", "k1", "k2", "k3", "k4", "k5", "k6">>

\* final_answer texts: a head of signs, digits, points and letters, as it is
\* and padded to the threshold and to one more; and the answer "-4" followed
\* by a blank and a six-character remark
AnswerTexts ==
    LET heads == SeqsUpTo({"-", "4", ".", "x"}, MaxHead)
    IN  heads
        \cup {padded(h, AnswerThreshold) : h \in heads}
        \cup {padded(h, AnswerThreshold + 1) : h \in heads}
        \cup {RemarkedAnswer}

\* the final_answer member: absent, a number, or a text
AnswerMembers ==
    {<<>>, member(kFinalAnswer, <<"-", "4">>)}
    \cup {member(kFinalAnswer, quoted(a)) : a \in AnswerTexts}

\* the members that are present, as an object
recordText(ms) == objectText(SelectSeq(ms, LAMBDA m : m # <<>>))

RecordTexts ==
    {recordText(<<st, <<>>, ch>>) : st \in StemMembers, ch \in ChecksMembers}
    \cup {recordText(<<member(kStem, quoted(<<"x">>)), fa, <<>>>>) : fa \in AnswerMembers}

Texts == StructureTexts \cup RecordTexts

ParseInit ==
    /\ ApiInit /\ DevInit /\ UserInit /\ ProxyIdle
    /\ llmText \in Texts
    /\ parseRun = [called |-> FALSE, threw |-> FALSE, parsedProblem |-> Null,
                   parseError |-> "", extracted |-> Undefined]

\* the parse button is pressed on llmOutput = llmText
Parse ==
    /\ ~parseRun.called
    /\ parseRun' = parseLlmOutputOn(llmText)
    /\ UNCHANGED <<apiVars, devVars, userVars, llmText, proxyVars>>

ParseNext == Parse

ParseSpec == ParseInit /\ [][ParseNext]_vars


\* ---- the proxy Route Handler on one request ----

\* most header entries a request or an upstream response is given
MaxHeaders == 2

\* Headers.prototype.set on the headers hs, a set of <<name, value>>
headersSet(hs, k, v) == {p \in hs : p[1] # k} \cup {<<k, v>>}

RECURSIVE copyHeaders(_, _, _)
\* route.js:34-38 and 59-63: the loop over the entries es that sets every
\* header whose name is not in skip
copyHeaders(es, skip, acc) ==
    IF es = <<>> THEN acc
    ELSE Let(IF es[1][1] \in skip THEN acc ELSE headersSet(acc, es[1][1], es[1][2]),
             LAMBDA a : copyHeaders(Tail(es), skip, a))

\* route.js:33
skipHeaders == {"host", "connection", "transfer-encoding", "content-length", "accept-encoding"}
\* route.js:58
skipResHeaders == {"transfer-encoding", "connection", "content-encoding", "content-length"}

\* route.js:32-38, the headers of the forwarded request
requestHeaders(es) == copyHeaders(es, skipHeaders, {})

\* route.js:57-65, the headers of the returned response
responseHeaders(es) ==
    headersSet(copyHeaders(es, skipResHeaders, {}), "content-length", "body.byteLength")

\* route.js:84
ErrorHeaders == {<<"content-type", "application/json">>}

\* the entries of request.headers: one entry per name
RequestEntries ==
    LET pool == {<<n, "v">> : n \in {"host", "connection", "transfer-encoding", "content-length",
                                    "content-encoding", "accept-encoding", "authorization"}}
    IN  {es \in SeqsUpTo(pool, MaxHeaders) :
            \A i, j \in 1..Len(es) : i # j => es[i][1] # es[j][1]}

\* the entries of upstream.headers: one entry per name, but one per cookie
\* for set-cookie
ResponseEntries ==
    LET pool == {<<n, "v">> : n \in {"connection", "transfer-encoding", "content-length",
                                    "content-encoding", "x-request-id"}}
                \cup {<<"set-cookie", "a=1">>, <<"set-cookie", "b=2">>}
    IN  {es \in SeqsUpTo(pool, MaxHeaders) :
            \A i, j \in 1..Len(es) :
                i # j => es[i] # es[j] /\ (es[i][1] = es[j][1] => es[i][1] = "set-cookie")}

\* route.js:22-52: the request is forwarded
Forward ==
    /\ proxy.phase = "request"
    /\ proxy' = [proxy EXCEPT !.phase = "forwarded",
                              !.forwarded = requestHeaders(proxy.request)]
    /\ UNCHANGED <<apiVars, devVars, userVars, parseVars>>

\* route.js:52-87: the upstream fetch ends in up, with the header entries es
\* when it is a response, and the handler returns
Respond(up, es) ==
    /\ proxy.phase = "forwarded"
    /\ up.kind # "resp" => es = <<>>
    /\ proxy' = [proxy EXCEPT !.phase = "returned", !.up = up, !.upHeaders = es,
                              !.response = handler(up),
                              !.headers = IF passedOn(up) THEN responseHeaders(es)
                                          ELSE ErrorHeaders]
    /\ UNCHANGED <<apiVars, devVars, userVars, parseVars>>

ProxyInit ==
    /\ ApiInit /\ DevInit /\ UserInit /\ ParserInit
    /\ proxy \in {ProxyRequest(es) : es \in RequestEntries}

ProxyNext ==
    \/ Forward
    \/ \E up \in Upstream, es \in ResponseEntries : Respond(up, es)

ProxySpec == ProxyInit /\ [][ProxyNext]_vars

----------------------------------------------------------------------------
Init == ApiInit /\ DevInit /\ UserInit /\ ParserInit /\ ProxyIdle

Next ==
    \/ \E r \in 0..MaxRetries : Call("other", r)
    \/ renderTemplate
    \/ saveProblem
    \/ generateWithLlm
    \/ Sleep
    \/ Attempt

Spec == Init /\ [][Next]_vars

DevSpec == Init /\ [][DevNext]_vars

UserSpec == Init /\ [][UserNext]_vars

\* every request that was sent is answered, fails or times out, and every
\* backoff timer fires
FairSpec == Spec /\ WF_vars(Sleep) /\ WF_vars(Attempt)

----------------------------------------------------------------------------
(* Properties of apiFetch *)

\* attempt i (1-based position in log) was followed by a further request
Resent(i) == sent > i

Is5xxGateway(o) == o.kind = "resp" /\ o.status \in {502, 504}
Is4xx(o) == o.kind = "resp" /\ o.status >= 400 /\ o.status <= 499
Succeeds(o) == o.kind = "resp" /\ Ok(o.status) /\ (o.json => o.body = "object")
MalformedJson(o) == o.kind = "resp" /\ o.json /\ o.body = "malformed"

\* C1: a further request is sent only after an attempt that ended in a 502 or
\* 504 response, a network error or a timeout, and only while attempts remain;
\* an attempt that ends in a 4xx response is the last one and the call throws
\* an error built by that attempt.
C1_RetryOnlyTransient ==
    \A i \in 1..Len(log) :
        /\ Resent(i) =>
              /\ log[i].kind \in {"abort", "neterr"} \/ Is5xxGateway(log[i])
              /\ i - 1 < retries
        /\ Is4xx(log[i]) =>
              /\ i = Len(log) /\ sent = i /\ pc = "done"
              /\ result.type = "error" /\ result.att = i - 1

C1_Witness ==
    /\ pc = "done" /\ Len(log) = 2 /\ sent = 2
    /\ Is5xxGateway(log[1]) /\ Is4xx(log[2])
    /\ result.type = "error"

\* C2: one save operation sends a further insert request only after an attempt
\* whose connection failed before any response, and the store inserts at most
\* one record for it.
C2_PersistAtMostOnce ==
    path = "save_problem" =>
        /\ \A i \in 1..Len(log) : Resent(i) => log[i].kind = "neterr"
        /\ committed <= 1

\* C7: a response declared as JSON whose body does not parse ends the call, on
\* that attempt, with the parse-failure error whatever the status; and the
\* call never returns null in place of data.
C7_MalformedResponseError ==
    /\ \A i \in 1..Len(log) :
          MalformedJson(log[i]) =>
              /\ i = Len(log) /\ pc = "done"
              /\ result = Err("parse_failed", log[i].status, i - 1)
    /\ (pc = "done" /\ result.type = "data") => log[Len(log)].body = "object"

\* C8: with the default number of retries, two attempts answered 502/504
\* followed by a third that succeeds make the call return the third attempt's
\* result.
C8_ThirdAttemptSucceeds ==
    ( /\ pc = "done" /\ retries = DefaultRetries /\ Len(log) = 3
      /\ Is5xxGateway(log[1]) /\ Is5xxGateway(log[2]) /\ Succeeds(log[3]) )
    => /\ result.type \in {"data", "response"}
       /\ result.att = 2
       /\ result.status = log[3].status

C8_Witness ==
    /\ pc = "done" /\ retries = DefaultRetries /\ Len(log) = 3
    /\ log[1].status = 502 /\ log[2].status = 504 /\ Succeeds(log[3])
    /\ result.type = "data"

\* C9: a call with retries = r sends at least one and at most r + 1 requests,
\* and once started it ends by returning or throwing.
C9_BoundedTermination ==
    /\ [](sent <= retries + 1 /\ (pc # "idle" => sent >= 1))
    /\ [](pc = "done" => result.type \in {"data", "response", "error"})
    /\ ((pc \in {"wait", "fetch"}) ~> (pc = "done"))

C9_Witness ==
    /\ pc = "done" /\ retries = 2 /\ sent = 3
    /\ result.type = "error" /\ result.msg = "timeout"

----------------------------------------------------------------------------
(* Properties of the workflow pages *)

\* C3: a step of the dev workflow never lowers currentStep unless it is the
\* reset (or the choice of a template, which starts the prompt over), and a
\* step that raises it raises it by one stage.
C3_StageForwardOnly ==
    [][ \/ resetAll
        \/ \E id \in Templates : onSelectTemplate(id)
        \/ /\ dev'.currentStep >= dev.currentStep
           /\ dev'.currentStep <= dev.currentStep + 1 ]_vars

\* the automatic generation of the wizard ended in a failure of render
\* (thrown error, blank prompt) or of completion (error field, thrown error)
AutoGenerateFailed ==
    user.status \in {"render_error", "empty_prompt", "llm_error", "llm_thrown"}

\* C4: in every state that follows a failure of render or completion the
\* wizard offers the button that runs the generation again or the reset button.
C4_FailedStageNotDeadEnd ==
    AutoGenerateFailed => canAutoGenerate \/ canReset

\* C5: when assemblePrompt answers with an empty retrieved list, the session
\* is at step 3 marked as RAG-skipped and the final prompt is the base prompt.
C5_NoDataIsRagSkipped ==
    [][ \A c \in devCalls, r \in RagResults :
          (r.ok /\ r.retrieved = 0 /\ injectRagDone(c, r)) =>
              /\ dev'.currentStep = 3
              /\ dev'.ragSkipped
              /\ finalPrompt' = dev'.basePrompt ]_vars

\* C6: when generatePdf fails for a session whose output was parsed and saved,
\* the parsed record and the output text are unchanged and pdfUrl is empty.
C6_CompileFailureLeavesNoArtifact ==
    [][ \A c \in devCalls, r \in PdfResults \ {"pdf_url"} :
          ( /\ dev.parsedProblem # NoProblem /\ dev.savedProblemId # ""
            /\ compilePdfDone(c, r) ) =>
              /\ dev'.parsedProblem = dev.parsedProblem
              /\ dev'.llmOutput = dev.llmOutput
              /\ dev'.pdfUrl = "" ]_vars

\* what the stages of the dev workflow have produced: prompt text, retrieved
\* context, raw output, parsed record
DevProgress ==
    <<dev.basePrompt, dev.ragPrompt, dev.retrievedChunks, dev.llmOutput, dev.parsedProblem>>

\* a remote operation of the dev workflow ends in a failure
DevFailure ==
    \E c \in devCalls :
        \/ \E r \in RenderResults : ~r.ok /\ generateBasePromptDone(c, r)
        \/ \E r \in RagResults : ~r.ok /\ injectRagDone(c, r)
        \/ \E r \in SaveResults : ~r.ok /\ saveToProblemsDbDone(c, r)
        \/ \E r \in PdfResults \ {"pdf_url"} : compilePdfDone(c, r)

\* render of the wizard fails: the call throws, or the rendered prompt is blank
UserRenderFailure ==
    \E c \in userCalls, r \in UserRenderResults :
        \/ (~r.ok \/ trim(r.rendered) = "") /\ handleAutoGenerateRendered(c, r)
        \/ ~r.ok /\ generatePromptDone(c, r)

\* completion or compile of the wizard fails
UserDownstreamFailure ==
    \E c \in userCalls :
        \/ \E r \in LlmResults : (r.thrown \/ r.error) /\ handleAutoGenerateDone(c, r)
        \/ \E r \in PdfResults \ {"pdf_url"} : userCompilePdfDone(c, r)

C12_ResetKeepsParameters ==
    /\ [][resetAll =>
            /\ dev'.currentStep = 1
            /\ dev'.basePrompt = Empty /\ dev'.ragPrompt = Empty
            /\ dev'.retrievedChunks = 0 /\ dev'.llmOutput = ""
            /\ dev'.parsedProblem = NoProblem /\ dev'.savedProblemId = ""
            /\ dev'.pdfUrl = ""
            /\ dev'.templateId = dev.templateId
            /\ dev'.referenceStem = dev.referenceStem]_vars
    /\ [][resetWizard =>
            /\ user'.step = 1
            /\ user'.prompt = "" /\ user'.renderContext = "null"
            /\ user'.generatedLatex = "" /\ user'.llmOutput = ""
            /\ user'.pdfUrl = ""
            /\ user'.templateId = user.templateId
            /\ user'.mode = user.mode]_vars

\* the dev state without the status message
DevStateButStatus == [dev EXCEPT !.status = ""]

\* injectRag fails: assemblePrompt throws, for an empty index or anything else
InjectRagFailure ==
    \E c \in devCalls, r \in RagResults : ~r.ok /\ injectRagDone(c, r)

\* C13: a step in which injectRag fails changes nothing but the status message
\* and leaves the skip button enabled if it was; a skipRag step ends at step 3,
\* marked as skipped, with the final prompt equal to the base prompt.
C13_RetrievalAbsenceNeverBlocks ==
    /\ [][InjectRagFailure =>
            /\ DevStateButStatus' = DevStateButStatus
            /\ canSkipRag => canSkipRag']_vars
    /\ [][skipRag =>
            /\ dev'.currentStep = 3 /\ dev'.ragSkipped
            /\ finalPrompt' = dev'.basePrompt]_vars

\* injectRag has just failed on an empty index and the skip button is enabled
C13_Witness ==
    /\ dev.status = "rag_no_data" /\ dev.currentStep = 2
    /\ canSkipRag /\ ~dev.ragSkipped /\ devCalls = {}


\* ---- the parse stage ----

\* the parse stage has run on a text that is not blank
ParsedNonBlank == parseRun.called /\ trimText(llmText) # <<>>

\* a placeholder check: the given description, not verified
IsPlaceholder(c, d) == c = JObj(<<<<kDesc, d>>, <<kOk, JBool(FALSE)>>>>)

\* C14: when the text is not blank and extractJson finds no JSON in it, the
\* parse stage raises nothing and reports no error; the parsed record is the
\* fallback record, whose stem is the trimmed text and whose checks are two
\* placeholder entries.
C14_FallbackRecord ==
    (ParsedNonBlank /\ parseRun.extracted = Null) =>
        /\ ~parseRun.threw
        /\ parseRun.parseError = ""
        /\ parseRun.parsedProblem[1] = "object"
        /\ getProp(parseRun.parsedProblem, kStem) = JStr(trimText(llmText))
        /\ LET cs == getProp(parseRun.parsedProblem, kChecks)
           IN  /\ cs[1] = "array"
               /\ Len(cs[2]) = 2
               /\ \A i \in 1..2 : IsPlaceholder(cs[2][i], GeneratedDesc)

\* the fallback record was made of a text with blanks around it
C14_Witness ==
    /\ ParsedNonBlank
    /\ parseRun.extracted = Null
    /\ llmText # trimText(llmText)
    /\ getProp(parseRun.parsedProblem, kStem) = JStr(trimText(llmText))


\* the places of s where a fence stands, and the fences that open a block
\* (a fence opens a block when an even number of fences stand before it)
FenceAt(s) == {i \in 1..Len(s) : HasAt(s, i, Fence)}
Opens(s, i) == i \in FenceAt(s) /\ Cardinality({j \in FenceAt(s) : j < i}) % 2 = 0

\* the objects held by the fenced json blocks of s: a block opens with a fence
\* and the json tag and runs to the next fence
JsonBlockObjects(s) ==
    {v \in {JSONparse(trimText(SubSeq(s, i + 7, SetMin({j \in FenceAt(s) : j > i}) - 1))).val :
               i \in {k \in 1..Len(s) : /\ Opens(s, k)
                                        /\ HasAt(s, k + 3, JsonTag)
                                        /\ \E j \in FenceAt(s) : j > k}} :
        v[1] = "object"}

\* C15: when the text holds a fenced json block with a valid JSON object in
\* it, extractJson returns that object, whatever prose, braces or other fenced
\* blocks stand around the block.
C15_FencedJsonBlockWins ==
    (ParsedNonBlank /\ JsonBlockObjects(llmText) # {}) =>
        parseRun.extracted \in JsonBlockObjects(llmText)


\* the objects that stand in s from its first opening brace on
ObjectsAtFirstBrace(s) ==
    LET braces == {i \in 1..Len(s) : s[i] = "{"}
    IN  IF braces = {} THEN {}
        ELSE {v \in {JSONparse(SubSeq(s, SetMin(braces), e)).val : e \in SetMin(braces)..Len(s)} :
                 v[1] = "object"}

\* C16: when the text holds no fence and a JSON object stands in its prose
\* from the first opening brace on, extractJson returns that object, nested
\* objects and brace characters inside its string values included.
C16_BraceMatchedObject ==
    (ParsedNonBlank /\ FenceAt(llmText) = {} /\ ObjectsAtFirstBrace(llmText) # {}) =>
        parseRun.extracted \in ObjectsAtFirstBrace(llmText)


\* the original checks list of the extracted value, when it has one
OriginalChecks ==
    LET cs == getProp(parseRun.extracted, kChecks)
    IN  IF cs[1] = "array" THEN cs[2] ELSE <<>>

\* the checks list of the parsed record, when it has one
RecordChecks ==
    LET cs == getProp(parseRun.parsedProblem, kChecks)
    IN  IF cs[1] = "array" THEN cs[2] ELSE <<>>

\* the entry e of the record stands for the original entry c: a description
\* text and a verdict that c carries are the ones e carries
Keeps(e, c) ==
    /\ (getPropOpt(c, kDesc)[1] = "string" /\ getPropOpt(c, kDesc)[2] # <<>>)
           => getProp(e, kDesc) = getPropOpt(c, kDesc)
    /\ getPropOpt(c, kOk)[1] = "boolean" => getProp(e, kOk) = getPropOpt(c, kOk)

\* C17: after the parse stage has run on a text that is not blank, the record
\* has a checks list of at least two entries: of exactly max(2, n) entries
\* when the original list had n, every original entry at its own position and
\* the padding after them.
C17_AtLeastTwoChecks ==
    ParsedNonBlank =>
        /\ getProp(parseRun.parsedProblem, kChecks)[1] = "array"
        /\ Len(RecordChecks) >= 2
        /\ Len(RecordChecks) = IF Len(OriginalChecks) > 2 THEN Len(OriginalChecks) ELSE 2
        /\ \A i \in 1..Len(OriginalChecks) : Keeps(RecordChecks[i], OriginalChecks[i])
        /\ \A i \in (Len(OriginalChecks) + 1)..Len(RecordChecks) :
               getProp(RecordChecks[i], kOk) = JBool(FALSE)


\* C18: every entry of the record's checks list has a text as desc and a
\* boolean as ok, whatever the fields of the original entry were.
C18_ChecksEntriesTyped ==
    ParsedNonBlank =>
        \A i \in 1..Len(RecordChecks) :
            /\ getPropOpt(RecordChecks[i], kDesc)[1] = "string"
            /\ getPropOpt(RecordChecks[i], kOk)[1] = "boolean"


\* the numeric token s starts with (a sign if any, digits, a decimal part if
\* any), or <<>> when s does not start with one
LeadingToken(s) ==
    IF s # <<>> /\ s[1] \in Digits \cup {"-"} THEN numMatch(s) ELSE <<>>

\* the final_answer of the extracted object and of the parsed record
OriginalAnswer == getProp(parseRun.extracted, kFinalAnswer)
RecordAnswer == getProp(parseRun.parsedProblem, kFinalAnswer)

\* C19: a final_answer text of more than 20 characters that starts with a
\* numeric token is replaced by that token, and every other final_answer is
\* left as it is; the remarked answer "-4 ..." becomes "-4" and "-4" stays.
C19_FinalAnswerNormalised ==
    (ParsedNonBlank /\ parseRun.extracted[1] = "object") =>
        /\ IF /\ OriginalAnswer[1] = "string"
              /\ Len(OriginalAnswer[2]) > 20
              /\ LeadingToken(OriginalAnswer[2]) # <<>>
           THEN RecordAnswer = JStr(LeadingToken(OriginalAnswer[2]))
           ELSE OriginalAnswer # JStr(RemarkedAnswer) => RecordAnswer = OriginalAnswer
        /\ OriginalAnswer = JStr(RemarkedAnswer) => RecordAnswer = JStr(<<"-", "4">>)
        /\ OriginalAnswer = JStr(<<"-", "4">>) => RecordAnswer = JStr(<<"-", "4">>)


\* the stem of the extracted object
OriginalStem == getProp(parseRun.extracted, kStem)

\* C20: an extracted record whose stem is missing or empty is rejected with a
\* parse error and does not become the parsed record; a record with a stem
\* that is not empty and no other field is accepted.
C20_StemRequired ==
    (ParsedNonBlank /\ parseRun.extracted[1] = "object") =>
        IF OriginalStem[1] = "string" /\ OriginalStem[2] # <<>>
        THEN /\ parseRun.parseError = ""
             /\ parseRun.parsedProblem[1] = "object"
             /\ getProp(parseRun.parsedProblem, kStem) = OriginalStem
        ELSE /\ parseRun.parseError # ""
             /\ parseRun.parsedProblem = Null


----------------------------------------------------------------------------
(* Further properties of apiFetch and of the proxy *)

\* C21: no wait precedes the first attempt, the wait before retry attempt k
\* (k >= 1) is 3000 * k milliseconds, and no wait follows the last attempt:
\* the waits made are one fewer than the requests sent, and never more than
\* retries.
C21_LinearBackoff ==
    /\ \A k \in 1..Len(waits) : waits[k] = 3000 * k
    /\ Len(waits) = IF sent = 0 THEN 0 ELSE sent - 1
    /\ Len(waits) <= retries
    /\ (pc = "done" /\ sent > 0) => Len(waits) = Len(log) - 1

\* a call that used all three attempts and failed
C21_Witness ==
    /\ pc = "done" /\ result.type = "error" /\ retries = 2
    /\ Len(log) = 3 /\ waits = <<3000, 6000>>


\* the failure causes an attempt that ended in o shows, of the four the
\* gateway names
Causes(o) ==
    (IF o.kind = "abort" THEN {"Timeout"} ELSE {})
    \cup (IF o.kind = "neterr" THEN {"NetworkError"} ELSE {})
    \cup (IF Is5xxGateway(o) THEN {"Unavailable"} ELSE {})
    \cup (IF MalformedJson(o) THEN {"MalformedResponse"} ELSE {})

\* what the call ends in when its last attempt, attempt a, ends in o
GivesUpWith(o, a) ==
    IF o.kind = "abort" THEN Err("timeout", 0, a)
    ELSE IF o.kind = "neterr" THEN ErrText("connect", 0, a, o.detail)
    ELSE Settle(o, a)

\* C22: the error of a call that gave up tells the four failure causes apart:
\* a last attempt that fails for another of the four causes surfaces an error
\* the caller can tell from this one.
C22_ErrorKindsDistinct ==
    (pc = "done" /\ result.type = "error" /\ Causes(log[Len(log)]) # {}) =>
        \A o \in Outcomes :
            ( /\ Causes(o) # {}
              /\ Causes(o) \cap Causes(log[Len(log)]) = {}
              /\ GivesUpWith(o, result.att).type = "error" )
            => message(GivesUpWith(o, result.att)) # message(result)


\* C23: when the upstream fetch or the reading of its body fails, the proxy
\* returns a JSON error response with status 504 for a timeout and 502 for any
\* other failure; an upstream response that was received is returned with its
\* own status.
C23_ProxyErrorStatuses ==
    proxy.phase = "returned" =>
        /\ proxy.up.kind = "timeout" =>
               proxy.response.status = 504 /\ proxy.response.json /\ proxy.response.body = "object"
        /\ proxy.up.kind = "failed" =>
               proxy.response.status = 502 /\ proxy.response.json /\ proxy.response.body = "object"
        /\ proxy.up.kind = "resp" => proxy.response.status = proxy.up.status


\* the headers that belong to one connection
ConnectionScoped ==
    {"host", "connection", "transfer-encoding", "content-length", "content-encoding"}

\* the entries of es that are not connection-scoped, as they are
PassedThrough(es) == {es[i] : i \in {j \in 1..Len(es) : es[j][1] \notin ConnectionScoped}}

\* C24: the forwarded request carries exactly the request headers that are
\* not connection-scoped, with their values, and a response that is passed on
\* carries exactly the upstream headers that are not connection-scoped, with
\* their values.
C24_HeaderPolicy ==
    /\ proxy.phase \in {"forwarded", "returned"} =>
           proxy.forwarded = PassedThrough(proxy.request)
    /\ (proxy.phase = "returned" /\ passedOn(proxy.up)) =>
           proxy.headers = PassedThrough(proxy.upHeaders)


----------------------------------------------------------------------------
(* Further properties of the workflow pages *)

\* C25: at most one remote call of a session is outstanding at any time.
C25_OneOutstandingCall ==
    /\ Cardinality(devCalls) <= 1
    /\ Cardinality(userCalls) <= 1


\* the stage of a session and the data of its stages
DevCommitted ==
    <<dev.currentStep, dev.basePrompt, dev.ragPrompt, dev.retrievedChunks, dev.ragSkipped,
      dev.llmOutput, dev.parsedProblem, dev.savedProblemId, dev.pdfUrl>>
UserCommitted ==
    <<user.step, user.prompt, user.renderContext, user.generatedLatex, user.pdfUrl,
      user.llmOutput>>

\* a step that sends a remote call and leaves it pending
DevCallStarted == devCalls' # devCalls /\ devCalls \subseteq devCalls'
UserCallStarted == userCalls' # userCalls /\ userCalls \subseteq userCalls'

\* C26: a stage transition is committed only when the stage's remote call has
\* resolved: the step that sends the call and the step in which the call
\* fails leave the stage and the data of the session as they were.
C26_CommitAfterResolve ==
    /\ [][(DevCallStarted \/ DevFailure) => DevCommitted' = DevCommitted]_vars
    /\ [][(UserCallStarted \/ UserRenderFailure \/ UserDownstreamFailure)
            => UserCommitted' = UserCommitted]_vars


\* C27: whenever savedProblemId is set, a parsed record is present and the id
\* is the one the store returned for that record.
C27_SavedIdMatchesRecord ==
    dev.savedProblemId # "" =>
        /\ dev.parsedProblem # NoProblem
        /\ dev.savedProblemId = dev.parsedProblem.of

\* C28: the parsed record, whenever present, is the normalization of the
\* current raw output; only parseLlmOutput sets it, and every edit of the raw
\* output and every resetAll clears the parsed record and the saved id.
C28_RecordFollowsRawOutput ==
    /\ [](dev.parsedProblem # NoProblem => dev.parsedProblem = parsed(dev.llmOutput))
    /\ [][(dev'.parsedProblem # dev.parsedProblem /\ dev'.parsedProblem # NoProblem)
            => parseLlmOutput]_vars
    /\ [][((\E v \in LlmOutputs : setLlmOutput(v)) \/ resetAll)
            => (dev'.parsedProblem = NoProblem /\ dev'.savedProblemId = "")]_vars

C28_Witness ==
    /\ dev.llmOutput = "prose"
    /\ dev.parsedProblem = parsed("prose")
    /\ dev.savedProblemId = "prose"

\* C29: when apiFetch fails after using all its attempts, the error it throws
\* describes the outcome of the final attempt, never of an earlier one.
C29_FinalAttemptError ==
    (pc = "done" /\ result.type = "error" /\ Len(log) = retries + 1) =>
        LET o == log[Len(log)]
        IN  /\ result.att = retries
            /\ o.kind = "abort" => result.msg = "timeout"
            /\ o.kind = "neterr" => (result.msg = "connect" /\ result.text = o.detail)
            /\ o.kind = "resp" =>
                  /\ result.status = o.status
                  /\ result.msg \notin {"timeout", "connect", "retrying", "fallback"}
                  /\ result.msg = "detail" => result.text = o.detail

C29_Witness ==
    /\ pc = "done" /\ result.type = "error"
    /\ retries = 2 /\ Len(log) = 3
    /\ log[1].kind = "abort"
    /\ log[2].kind = "neterr" /\ log[3].kind = "neterr"
    /\ log[2].detail # log[3].detail
    /\ result.text = log[3].detail

Blank(t) == trim(t) = ""

\* A handler of the dev page runs while its own precondition is unmet.
UnmetInvocation ==
    \/ generateBasePrompt /\ dev.templateId = ""
    \/ injectRag /\ dev.basePrompt = Empty
    \/ parseLlmOutput /\ Blank(dev.llmOutput)
    \/ compilePdf /\ Blank(dev.llmOutput)
    \/ saveLog /\ Blank(dev.llmOutput)
    \/ saveToProblemsDb /\ dev.parsedProblem = NoProblem

\* C30: a dev operation invoked while its precondition is unmet sends no
\* remote request and changes nothing but the status and parse-error message.
C30_UnmetPreconditionFrame ==
    [][UnmetInvocation =>
         /\ devCalls' = devCalls
         /\ dev' = [dev EXCEPT !.status = dev'.status,
                               !.parseError = dev'.parseError]]_vars

=============================================================================
